---- MODULE Spec2Model ----
(***************************************************************************)
(* Model of src/app.ts: a quicktype target language that renders a         *)
(* resolved type graph as cross-referenced Markdown.                       *)
(*                                                                         *)
(* The module holds four specifications over the same variables:           *)
(*   Spec        main(): argument check, schema read, resolution,          *)
(*               makeRenderer, emitTypes over the named types, printing;   *)
(*   SpecSection emitTypes over one named type drawn from the full set of  *)
(*               classes, enums and unions within the bounds;              *)
(*   SpecFmt     sourceFor applied to one type reference;                  *)
(*   SpecOpt     makeRenderer applied to caller-supplied option values.    *)
(*                                                                         *)
(* quicktype-core itself is a library: what the renderer inherits from it  *)
(* (the TypeScript formatting of primitive, map and union types, emitEnum, *)
(* the blank-line handling of forEachNamedType) is modelled at the place   *)
(* where app.ts calls it.                                                  *)
(***************************************************************************)
EXTENDS Integers, Sequences, FiniteSets, TLC

VARIABLES
    args,                 \* process.argv.slice(2)
    pc,                   \* position of main()
    stderr,               \* lines written with console.error
    stdout,               \* lines written with console.log
    exitCode,             \* -1 while the process runs, else its exit status
    calls,                \* the steps of main() taken so far
    callerOptions,        \* untypedOptionValues as handed to makeRenderer
    untypedOptionValues,  \* untypedOptionValues as makeRenderer leaves it
    namedTypes,           \* the named types forEachNamedType iterates over
    idx,                  \* index of the next named type
    lines,                \* the lines emitted so far
    fmtType,              \* the type reference handed to sourceFor
    fmtResult,            \* the MultiWord sourceFor returned
    superKinds,           \* kinds sourceFor handed to super.sourceFor
    fmtDone               \* whether sourceFor has returned

vars == <<args, pc, stderr, stdout, exitCode, calls, callerOptions,
          untypedOptionValues, namedTypes, idx, lines, fmtType, fmtResult,
          superKinds, fmtDone>>

mainVars == <<args, pc, stderr, stdout, exitCode, calls>>
optVars == <<callerOptions, untypedOptionValues>>
emitVars == <<namedTypes, idx, lines>>
fmtVars == <<fmtType, fmtResult, superKinds, fmtDone>>

(***************************************************************************)
(* Bounds                                                                  *)
(***************************************************************************)
MaxDepth == 2
MaxProps == 2
MaxCases == 2
MaxDescLines == 2
MaxTypes == 3
MaxArgs == 3

(***************************************************************************)
(* Type references                                                         *)
(***************************************************************************)
Prim(k) == [kind |-> k, name |-> "", items |-> <<>>]
Named(k, n) == [kind |-> k, name |-> n, items |-> <<>>]
ArrayOf(t) == [kind |-> "array", name |-> "", items |-> <<t>>]
MapOf(t) == [kind |-> "map", name |-> "", items |-> <<t>>]
UnionOf(a, b) == [kind |-> "union", name |-> "", items |-> <<a, b>>]

PrimKinds == {"any", "null", "bool", "integer", "double", "string", "date-time"}

Leaves ==
    {Prim(k) : k \in PrimKinds}
        \cup {Named("class", "Person"), Named("enum", "Color"), Named("object", "Thing")}

RECURSIVE TypesUpTo(_)
TypesUpTo(d) ==
    IF d = 0 THEN Leaves
    ELSE LET S == TypesUpTo(d - 1)
         IN  S \cup {ArrayOf(t) : t \in S}
               \cup {MapOf(t) : t \in S}
               \cup {UnionOf(t, Prim("null")) : t \in {s \in S : s.kind \notin {"union", "null"}}}

TypeRefs == TypesUpTo(MaxDepth)

(***************************************************************************)
(* Type-expression formatter                                               *)
(***************************************************************************)
isUnionType(t) == t.kind = "union"

isArrayType(t) == t.kind = "array"

singleWord(source) == [source |-> source, needsParens |-> FALSE]

parenIfNeeded(w) == IF w.needsParens THEN "(" \o w.source \o ")" ELSE w.source

nameForNamedType(t) == t.name

IsNamedKind_noObject(kind) == kind \in {"class", "enum"}

IsNamedKind(kind) == kind \in {"class", "object", "enum"}

NamedRef(name) ==
    [source |-> "<a href='#typedef-" \o name \o "'>" \o name \o "</a>",
     needsParens |-> FALSE]

ArrayCase_noUnion(items, itemType) ==
    IF isArrayType(items)
    THEN singleWord("Array&lt;" \o itemType.source \o "&gt;")
    ELSE singleWord(parenIfNeeded(itemType) \o "[]")

ArrayCase(items, itemType) ==
    IF isArrayType(items) \/ isUnionType(items)
    THEN singleWord("Array&lt;" \o itemType.source \o "&gt;")
    ELSE singleWord(parenIfNeeded(itemType) \o "[]")

\* Which branch of sourceFor takes the type: the cross-reference of lines
\* 60-66, the array case of matchType, or one of the super.sourceFor cases.
dispatch(t) ==
    IF IsNamedKind(t.kind) THEN "link"
    ELSE IF t.kind = "array" THEN "array"
    ELSE "super"

RECURSIVE sourceFor(_), superSourceFor(_), delegated(_)

\* TypeScriptRenderer.sourceFor of quicktype-core, which calls back into
\* this.sourceFor for the values of a map and the members of a union.
superSourceFor(t) ==
    CASE t.kind \in {"class", "object", "enum"} -> singleWord(nameForNamedType(t))
      [] t.kind = "any" -> singleWord("any")
      [] t.kind = "null" -> singleWord("null")
      [] t.kind = "bool" -> singleWord("boolean")
      [] t.kind \in {"integer", "double"} -> singleWord("number")
      [] t.kind = "string" -> singleWord("string")
      [] t.kind = "date-time" -> singleWord("Date")
      [] t.kind = "map" ->
            singleWord("{ [key: string]: " \o sourceFor(t.items[1]).source \o " }")
      [] t.kind = "union" ->
            [source |-> parenIfNeeded(sourceFor(t.items[1])) \o " | "
                            \o parenIfNeeded(sourceFor(t.items[2])),
             needsParens |-> TRUE]

sourceFor(t) ==
    CASE dispatch(t) = "link" -> NamedRef(nameForNamedType(t))
      [] dispatch(t) = "array" -> ArrayCase(t.items[1], sourceFor(t.items[1]))
      [] dispatch(t) = "super" -> superSourceFor(t)

\* The kinds sourceFor(t) hands to super.sourceFor, at any recursion level.
delegated(t) ==
    CASE dispatch(t) = "link" -> {}
      [] dispatch(t) = "array" -> delegated(t.items[1])
      [] dispatch(t) = "super" ->
            {t.kind} \cup UNION {delegated(t.items[i]) : i \in 1..Len(t.items)}

NoResult == [source |-> "", needsParens |-> FALSE]

\* this.sourceFor(t), called once on the type reference chosen at the start.
SourceForCall ==
    /\ ~fmtDone
    /\ fmtResult' = sourceFor(fmtType)
    /\ superKinds' = delegated(fmtType)
    /\ fmtDone' = TRUE
    /\ UNCHANGED <<fmtType, mainVars, optVars, emitVars>>

(***************************************************************************)
(* Renderer options                                                        *)
(***************************************************************************)
OptionKeys == {"just-types", "nice-property-names", "explicit-unions"}

\* "absent": the key is not in the object; the others are values stored
\* under the key.  Reading an absent key yields undefined.
OptionVals == {"absent", "undefined", "null", "false", "true"}

NoOptions == [k \in OptionKeys |-> "absent"]

StrictEqUndefined(v) == v \in {"absent", "undefined"}

\* v == undefined, JavaScript's loose equality: true of undefined and null.
LooseEqUndefined(v) == v \in {"absent", "undefined", "null"}

makeRenderer(options) ==
    IF LooseEqUndefined(options["just-types"])
    THEN [options EXCEPT !["just-types"] = "true"]
    ELSE options

(***************************************************************************)
(* Named types, as the resolver hands them over                            *)
(***************************************************************************)
DescLine(i) == "Description line " \o ToString(i)

NoDescription == [present |-> FALSE, text |-> <<>>]

Description(n) == [present |-> TRUE, text |-> [i \in 1..n |-> DescLine(i)]]

Descriptions(maxLines) == {NoDescription} \cup {Description(n) : n \in 1..maxLines}

TypeName(i) == "Type" \o ToString(i)

Property(i, type, optional, description) ==
    [name |-> "prop" \o ToString(i), jsonName |-> "prop_" \o ToString(i),
     type |-> type, isOptional |-> optional, description |-> description]

PropertyLists(maxProps, types, descs) ==
    UNION {{[i \in 1..n |-> Property(i, f[i][1], f[i][2], f[i][3])] :
                f \in [1..n -> types \X BOOLEAN \X descs]} : n \in 0..maxProps}

EnumCase(i) == [name |-> "Case" \o ToString(i), jsonName |-> "CASE_" \o ToString(i)]

ClassTypes(name, maxProps, types, descs) ==
    {[kind |-> "class", name |-> name, description |-> d, properties |-> ps,
      cases |-> <<>>] : d \in descs, ps \in PropertyLists(maxProps, types, descs)}

EnumTypes(name, maxCases, descs) ==
    {[kind |-> "enum", name |-> name, description |-> d, properties |-> <<>>,
      cases |-> [i \in 1..n |-> EnumCase(i)]] : d \in descs, n \in 1..maxCases}

UnionTypes(name, descs) ==
    {[kind |-> "union", name |-> name, description |-> d, properties |-> <<>>,
      cases |-> <<>>] : d \in descs}

PropTypes == {Prim("string"), Named("class", "Person"), ArrayOf(ArrayOf(Prim("string")))}

\* Every named type within the bounds, for the run over a single section.
SectionTypes ==
    ClassTypes(TypeName(1), MaxProps, PropTypes, Descriptions(MaxDescLines))
        \cup EnumTypes(TypeName(1), MaxCases, Descriptions(MaxDescLines))
        \cup UnionTypes(TypeName(1), Descriptions(MaxDescLines))

\* The named types a document of several sections is drawn from.
PipelineTypes(i) ==
    ClassTypes(TypeName(i), 1, {Prim("string")}, {NoDescription})
        \cup EnumTypes(TypeName(i), 1, {NoDescription})
        \cup UnionTypes(TypeName(i), {NoDescription})

RECURSIVE DocumentsOfLen(_)
DocumentsOfLen(n) ==
    IF n = 0 THEN {<<>>}
    ELSE {Append(d, t) : d \in DocumentsOfLen(n - 1), t \in PipelineTypes(n)}

Documents == UNION {DocumentsOfLen(n) : n \in 0..MaxTypes}

(***************************************************************************)
(* Section emitter                                                         *)
(***************************************************************************)
Line(level, text) == [indent |-> level, text |-> text]

\* The grave accent (U+0060) that delimits a Markdown code span; a TLA+ string
\* cannot hold the character itself.
Tick == "{backtick}"

Fence == Tick \o Tick \o Tick

BlankLine == Line(0, "")

emitDescription(description, level) ==
    IF ~description.present THEN <<>>
    ELSE [i \in 1..Len(description.text) |-> Line(level, description.text[i])]

emitTypeHeaderMarkdown_noPlaceholder(t, name) ==
    <<Line(0, "<a name='typedef-" \o name \o "'>"),
      Line(0, "## " \o Tick \o name \o Tick),
      BlankLine>>
        \o emitDescription(t.description, 0)
        \o (IF t.description.present THEN <<BlankLine>> ELSE <<>>)

emitTypeHeaderMarkdown(t, name) ==
    <<Line(0, "<a name='typedef-" \o name \o "'>"),
      Line(0, "## " \o Tick \o name \o Tick),
      BlankLine>>
        \o emitDescription(t.description, 0)
        \o <<BlankLine>>

OptionalSuffix_always(p) == " (optional)"

OptionalSuffix(p) == IF p.isOptional THEN " (optional)" ELSE ""

PropertyBullet(name, p) ==
    "* " \o Tick \o name \o Tick \o OptionalSuffix(p)
        \o ": <code>" \o sourceFor(p.type).source \o "</code>"

emitProperty_flatDescription(p) ==
    <<Line(0, PropertyBullet(p.name, p))>>
        \o (IF p.description.present
            THEN <<BlankLine>> \o emitDescription(p.description, 0) \o <<BlankLine>>
            ELSE <<>>)

\* The callback of forEachClassProperty, lines 102-120.
emitProperty(p) ==
    <<Line(0, PropertyBullet(p.name, p))>>
        \o (IF p.description.present
            THEN <<BlankLine>> \o emitDescription(p.description, 1) \o <<BlankLine>>
            ELSE <<>>)

RECURSIVE forEachClassProperty(_, _)
forEachClassProperty(properties, i) ==
    IF i > Len(properties) THEN <<>>
    ELSE emitProperty(properties[i]) \o forEachClassProperty(properties, i + 1)

emitClassPropertiesMarkdown(c) ==
    <<Line(0, "### Properties"), BlankLine>> \o forEachClassProperty(c.properties, 1)

emitClassMarkdown(c, className) ==
    emitTypeHeaderMarkdown(c, className) \o emitClassPropertiesMarkdown(c)

\* TypeScriptRenderer.emitEnum of quicktype-core: the description (through
\* this.emitDescription, which the renderer overrides) and the enum block.
emitEnum(e, enumName) ==
    emitDescription(e.description, 0)
        \o <<Line(0, "export enum " \o enumName \o " {")>>
        \o [i \in 1..Len(e.cases) |->
                Line(1, e.cases[i].name \o " = \"" \o e.cases[i].jsonName \o "\",")]
        \o <<Line(0, "}")>>

emitEnumMarkdown(c, enumName) ==
    emitTypeHeaderMarkdown(c, enumName)
        \o <<Line(0, Fence)>> \o emitEnum(c, enumName) \o <<Line(0, Fence)>>

emitUnion_header(u, unionName) == emitTypeHeaderMarkdown(u, unionName)

\* The union callback of emitTypes: () => {}.
emitUnion(u, unionName) == <<>>

\* forEachNamedType("leading-and-interposing", ...): a blank line is asked
\* for before every element and written only once something follows it on
\* an output that is not empty.
EmitSection(out, section) ==
    IF section = <<>> THEN out
    ELSE IF out = <<>> THEN section
    ELSE out \o <<BlankLine>> \o section

EmitClassStep ==
    /\ pc = "emitTypes"
    /\ idx <= Len(namedTypes)
    /\ namedTypes[idx].kind = "class"
    /\ lines' = EmitSection(lines, emitClassMarkdown(namedTypes[idx], namedTypes[idx].name))
    /\ idx' = idx + 1
    /\ UNCHANGED <<namedTypes, mainVars, optVars, fmtVars>>

EmitEnumStep ==
    /\ pc = "emitTypes"
    /\ idx <= Len(namedTypes)
    /\ namedTypes[idx].kind = "enum"
    /\ lines' = EmitSection(lines, emitEnumMarkdown(namedTypes[idx], namedTypes[idx].name))
    /\ idx' = idx + 1
    /\ UNCHANGED <<namedTypes, mainVars, optVars, fmtVars>>

EmitUnionStep ==
    /\ pc = "emitTypes"
    /\ idx <= Len(namedTypes)
    /\ namedTypes[idx].kind = "union"
    /\ lines' = EmitSection(lines, emitUnion(namedTypes[idx], namedTypes[idx].name))
    /\ idx' = idx + 1
    /\ UNCHANGED <<namedTypes, mainVars, optVars, fmtVars>>

\* quicktype() returns the lines.
EmitTypesReturn ==
    /\ pc = "emitTypes"
    /\ idx > Len(namedTypes)
    /\ pc' = "print"
    /\ UNCHANGED <<args, stderr, stdout, exitCode, calls, optVars, emitVars, fmtVars>>

(***************************************************************************)
(* main                                                                    *)
(***************************************************************************)
ProgramName == "app.js"

UsageLine == "Usage: " \o ProgramName \o " SCHEMA_NAME SCHEMA_FILE"

ArgAt(i) ==
    CASE i = 1 -> "Schema"
      [] i = 2 -> "schema.json"
      [] OTHER -> "extra" \o ToString(i)

ArgLists == {[i \in 1..n |-> ArgAt(i)] : n \in 0..MaxArgs}

UsageExit_noExit ==
    /\ pc = "main"
    /\ Len(args) # 2
    /\ stderr' = Append(stderr, UsageLine)
    /\ pc' = "read"
    /\ UNCHANGED <<args, stdout, exitCode, calls, optVars, emitVars, fmtVars>>

\* Lines 142-145: console.error and process.exit(1).
UsageExit ==
    /\ pc = "main"
    /\ Len(args) # 2
    /\ stderr' = Append(stderr, UsageLine)
    /\ exitCode' = 1
    /\ pc' = "exited"
    /\ UNCHANGED <<args, stdout, calls, optVars, emitVars, fmtVars>>

ArgsOk ==
    /\ pc = "main"
    /\ Len(args) = 2
    /\ pc' = "read"
    /\ UNCHANGED <<args, stderr, stdout, exitCode, calls, optVars, emitVars, fmtVars>>

\* fs.readFileSync(args[1], "utf8") returns the schema text.
ReadSchema ==
    /\ pc = "read"
    /\ calls' = calls \cup {"readFileSync"}
    /\ pc' = "resolve"
    /\ UNCHANGED <<args, stderr, stdout, exitCode, optVars, emitVars, fmtVars>>

\* fs.readFileSync throws: main's promise rejects.
ReadFails ==
    /\ pc = "read"
    /\ calls' = calls \cup {"readFileSync"}
    /\ pc' = "rejected"
    /\ UNCHANGED <<args, stderr, stdout, exitCode, optVars, emitVars, fmtVars>>

\* inputData.addSource and the type resolution of quicktype() succeed and
\* leave the named types of the graph.
Resolve ==
    /\ pc = "resolve"
    /\ calls' = calls \cup {"addSource", "quicktype"}
    /\ \E d \in Documents : namedTypes' = d
    /\ idx' = 1
    /\ pc' = "makeRenderer"
    /\ UNCHANGED <<args, stderr, stdout, exitCode, optVars, lines, fmtVars>>

\* The schema is rejected by the resolver: main's promise rejects.
ResolveFails ==
    /\ pc = "resolve"
    /\ calls' = calls \cup {"addSource"}
    /\ pc' = "rejected"
    /\ UNCHANGED <<args, stderr, stdout, exitCode, optVars, emitVars, fmtVars>>

\* MarkdownTargetLanguage.makeRenderer, called by quicktype().
MakeRenderer ==
    /\ pc = "makeRenderer"
    /\ untypedOptionValues' = makeRenderer(untypedOptionValues)
    /\ calls' = calls \cup {"makeRenderer"}
    /\ pc' = "emitTypes"
    /\ UNCHANGED <<args, stderr, stdout, exitCode, callerOptions, emitVars, fmtVars>>

\* One iteration of the loop of lines 156-158.
PrintLine ==
    /\ pc = "print"
    /\ Len(stdout) < Len(lines)
    /\ stdout' = Append(stdout, lines[Len(stdout) + 1])
    /\ UNCHANGED <<args, pc, stderr, exitCode, calls, optVars, emitVars, fmtVars>>

PrintDone ==
    /\ pc = "print"
    /\ Len(stdout) = Len(lines)
    /\ pc' = "done"
    /\ exitCode' = 0
    /\ UNCHANGED <<args, stderr, stdout, calls, optVars, emitVars, fmtVars>>

(***************************************************************************)
(* Specifications                                                          *)
(***************************************************************************)
FmtIdle ==
    /\ fmtType = Prim("string")
    /\ fmtResult = NoResult
    /\ superKinds = {}
    /\ fmtDone = FALSE

MainIdle ==
    /\ args = <<ArgAt(1), ArgAt(2)>>
    /\ stderr = <<>>
    /\ stdout = <<>>
    /\ exitCode = -1

Init ==
    /\ args \in ArgLists
    /\ pc = "main"
    /\ stderr = <<>>
    /\ stdout = <<>>
    /\ exitCode = -1
    /\ calls = {}
    /\ callerOptions = NoOptions
    /\ untypedOptionValues = NoOptions
    /\ namedTypes = <<>>
    /\ idx = 1
    /\ lines = <<>>
    /\ FmtIdle

Next ==
    \/ UsageExit
    \/ ArgsOk
    \/ ReadSchema
    \/ ReadFails
    \/ Resolve
    \/ ResolveFails
    \/ MakeRenderer
    \/ EmitClassStep
    \/ EmitEnumStep
    \/ EmitUnionStep
    \/ EmitTypesReturn
    \/ PrintLine
    \/ PrintDone

Spec == Init /\ [][Next]_vars

\* emitTypes over a single named type.
InitSection ==
    /\ MainIdle
    /\ pc = "emitTypes"
    /\ calls = {"readFileSync", "addSource", "quicktype", "makeRenderer"}
    /\ callerOptions = NoOptions
    /\ untypedOptionValues = makeRenderer(NoOptions)
    /\ \E t \in SectionTypes : namedTypes = <<t>>
    /\ idx = 1
    /\ lines = <<>>
    /\ FmtIdle

NextSection ==
    \/ EmitClassStep
    \/ EmitEnumStep
    \/ EmitUnionStep
    \/ EmitTypesReturn

SpecSection == InitSection /\ [][NextSection]_vars

\* sourceFor over every type reference within the depth bound.
InitFmt ==
    /\ MainIdle
    /\ pc = "emitTypes"
    /\ calls = {"readFileSync", "addSource", "quicktype", "makeRenderer"}
    /\ callerOptions = NoOptions
    /\ untypedOptionValues = makeRenderer(NoOptions)
    /\ namedTypes = <<>>
    /\ idx = 1
    /\ lines = <<>>
    /\ fmtType \in TypeRefs
    /\ fmtResult = NoResult
    /\ superKinds = {}
    /\ fmtDone = FALSE

NextFmt == SourceForCall

SpecFmt == InitFmt /\ [][NextFmt]_vars

\* makeRenderer over every option object a caller can hand in.
InitOpt ==
    /\ MainIdle
    /\ pc = "makeRenderer"
    /\ calls = {"readFileSync", "addSource", "quicktype"}
    /\ callerOptions \in [OptionKeys -> OptionVals]
    /\ untypedOptionValues = callerOptions
    /\ namedTypes = <<>>
    /\ idx = 1
    /\ lines = <<>>
    /\ FmtIdle

NextOpt == MakeRenderer

SpecOpt == InitOpt /\ [][NextOpt]_vars

(***************************************************************************)
(* Properties                                                              *)
(***************************************************************************)
StartsWith(s, prefix) == Len(s) >= Len(prefix) /\ SubSeq(s, 1, Len(prefix)) = prefix

\* A bullet of a member listing: an unindented line that opens a list item.
IsBullet(l) == l.indent = 0 /\ StartsWith(l.text, "* ")

BulletPositions ==
    SelectSeq([j \in 1..Len(lines) |-> j], LAMBDA j : IsBullet(lines[j]))

\* emitTypes has run over a single named type of one of the kinds.
SectionDone(kinds) ==
    pc = "print" /\ Len(namedTypes) = 1 /\ namedTypes[1].kind \in kinds

\* C1: sourceFor of an array type whose item type is an array or a union is
\* "Array&lt;" + the item's expression + "&gt;"; of any other array type it is
\* the item's expression, in parentheses iff the item's needsParens flag is
\* set, followed by "[]"; the returned needsParens flag is false either way.
\* The input ranges over every type reference within the depth bound, so the
\* rule is checked at every nesting level.
C1_ArrayFormat ==
    (fmtDone /\ fmtType.kind = "array") =>
        LET items == fmtType.items[1]
            item == sourceFor(items)
        IN  /\ fmtResult.needsParens = FALSE
            /\ fmtResult.source =
                   IF items.kind \in {"array", "union"}
                   THEN "Array&lt;" \o item.source \o "&gt;"
                   ELSE (IF item.needsParens
                         THEN "(" \o item.source \o ")"
                         ELSE item.source) \o "[]"

C1_Witness ==
    /\ fmtDone
    /\ fmtType = ArrayOf(ArrayOf(Prim("string")))
    /\ fmtResult = [source |-> "Array&lt;string[]&gt;", needsParens |-> FALSE]

\* C2: sourceFor of a class, enum or object type is the single fragment
\* <a href='#typedef-NAME'>NAME</a> with needsParens false, and no type of
\* these kinds, at any nesting level, is handed to super.sourceFor.
C2_NamedCrossReference ==
    fmtDone =>
        /\ fmtType.kind \in {"class", "enum", "object"} =>
               fmtResult =
                   [source |-> "<a href='#typedef-" \o fmtType.name \o "'>"
                                   \o fmtType.name \o "</a>",
                    needsParens |-> FALSE]
        /\ superKinds \cap {"class", "enum", "object"} = {}

C2_Witness ==
    /\ fmtDone
    /\ fmtType = Named("object", "Thing")
    /\ fmtResult.source = "<a href='#typedef-Thing'>Thing</a>"
    /\ superKinds = {}

\* C3: the section of a class with n properties holds exactly n bullets, in
\* declaration order, each opening with the property's display name in a code
\* span, followed by " (optional)" iff the property is optional.
C3_PropertyBullets ==
    SectionDone({"class"}) =>
        LET c == namedTypes[1]
            at == BulletPositions
        IN  /\ Len(at) = Len(c.properties)
            /\ \A i \in 1..Len(at) :
                   LET p == c.properties[i]
                       head == "* " \o Tick \o p.name \o Tick
                       text == lines[at[i]].text
                   IN  /\ StartsWith(text, head)
                       /\ StartsWith(text, head \o " (optional)") <=> p.isOptional
                       /\ StartsWith(text, head \o ":") <=> ~p.isOptional

C3_Witness ==
    /\ SectionDone({"class"})
    /\ Len(namedTypes[1].properties) = 2
    /\ ~namedTypes[1].properties[1].isOptional
    /\ namedTypes[1].properties[2].isOptional
    /\ \E j \in 1..Len(lines) : \E k \in (j + 1)..Len(lines) :
           /\ lines[j].text = "* " \o Tick \o "prop1" \o Tick \o ": <code>string</code>"
           /\ lines[k].text =
                  "* " \o Tick \o "prop2" \o Tick \o " (optional): <code>string</code>"

\* C4: the section of an enum with m cases holds the label "**Variants:**",
\* a blank line, and then exactly m bullets in declaration order, each the
\* case's wire-format name in double quotes inside a code span.
C4_EnumVariants ==
    SectionDone({"enum"}) =>
        LET e == namedTypes[1]
        IN  /\ Len(BulletPositions) = Len(e.cases)
            /\ \E k \in 1..Len(lines) :
                   /\ lines[k].text = "**Variants:**"
                   /\ k + 1 + Len(e.cases) <= Len(lines)
                   /\ lines[k + 1] = BlankLine
                   /\ \A i \in 1..Len(e.cases) :
                          lines[k + 1 + i].text =
                              "* " \o Tick \o "\"" \o e.cases[i].jsonName \o "\"" \o Tick

\* The lines emitTypes leaves for the first n named types when the union
\* entries among them are left out.
RECURSIVE RenderWithoutUnions(_, _)
RenderWithoutUnions(types, n) ==
    IF n = 0 THEN <<>>
    ELSE LET prev == RenderWithoutUnions(types, n - 1)
             t == types[n]
         IN  CASE t.kind = "class" -> EmitSection(prev, emitClassMarkdown(t, t.name))
               [] t.kind = "enum" -> EmitSection(prev, emitEnumMarkdown(t, t.name))
               [] t.kind = "union" -> prev

\* C5: a union entry of the named-type list never produces output: at every
\* point of emitTypes the emitted lines are those of the classes and enums
\* handled so far, wherever the unions sit and however many there are.
C5_UnionsProduceNoOutput ==
    pc \in {"emitTypes", "print", "done"} =>
        lines = RenderWithoutUnions(namedTypes, idx - 1)

C5_Witness ==
    /\ pc = "print"
    /\ Len(namedTypes) = 3
    /\ namedTypes[1].kind = "union"
    /\ namedTypes[2].kind = "class"
    /\ namedTypes[3].kind = "union"
    /\ lines = emitClassMarkdown(namedTypes[2], "Type2")
    /\ lines # <<>>

\* C6: a class or enum section starts with the anchor line
\* <a name='typedef-NAME'></a>, immediately followed by the level-2 header
\* line of NAME in a code span, and no other line of the section precedes them.
C6_AnchorAndHeader ==
    SectionDone({"class", "enum"}) =>
        LET name == namedTypes[1].name
        IN  /\ lines[1] = Line(0, "<a name='typedef-" \o name \o "'></a>")
            /\ lines[2] = Line(0, "## " \o Tick \o name \o Tick)

\* C7 as claimed: after the header line and its blank line come the
\* description lines, verbatim, and exactly one blank line; without a
\* description nothing comes, so the first member line directly follows the
\* blank line after the header.
C7_DescriptionOrNothing ==
    SectionDone({"class", "enum"}) =>
        LET d == namedTypes[1].description
            n == Len(d.text)
        IN  /\ lines[3] = BlankLine
            /\ IF d.present
               THEN /\ \A m \in 1..n : lines[3 + m] = Line(0, d.text[m])
                    /\ lines[4 + n] = BlankLine
                    /\ lines[5 + n].text # ""
               ELSE lines[4].text # ""

\* C7 as amended: after the header line and its blank line come the
\* description lines, verbatim (none when there is no description), and then
\* exactly one blank line, with or without a description; without one the
\* header is followed by two blank lines before the first member line.
C7_DescriptionThenBlank ==
    SectionDone({"class", "enum"}) =>
        LET d == namedTypes[1].description
            n == IF d.present THEN Len(d.text) ELSE 0
        IN  /\ lines[3] = BlankLine
            /\ \A m \in 1..n : lines[3 + m] = Line(0, d.text[m])
            /\ lines[4 + n] = BlankLine
            /\ lines[5 + n].text # ""

C7_Witness ==
    /\ SectionDone({"class"})
    /\ ~namedTypes[1].description.present
    /\ lines[3] = BlankLine
    /\ lines[4] = BlankLine
    /\ lines[5].text = "### Properties"

C9_ForcedOnlyWhenNotSupplied ==
    pc # "makeRenderer" =>
        untypedOptionValues =
            [k \in OptionKeys |->
                IF k = "just-types" /\ callerOptions[k] \in {"absent", "undefined"}
                THEN "true"
                ELSE callerOptions[k]]

\* C9 as amended: makeRenderer sets 'just-types' to true exactly when its
\* value is undefined or null (the key absent, or stored as undefined or
\* null); any other value, false included, is kept, and no other option is
\* changed.
C9_ForcedWhenUndefinedOrNull ==
    pc # "makeRenderer" =>
        untypedOptionValues =
            [k \in OptionKeys |->
                IF k = "just-types" /\ callerOptions[k] \in {"absent", "undefined", "null"}
                THEN "true"
                ELSE callerOptions[k]]

C9_Witness ==
    /\ pc = "emitTypes"
    /\ callerOptions["just-types"] = "null"
    /\ callerOptions["explicit-unions"] = "false"
    /\ untypedOptionValues["just-types"] = "true"
    /\ untypedOptionValues["explicit-unions"] = "false"

\* The member listing of a class under the given label line: the label, a
\* blank line, the bullets only after them; and a property with a description
\* has its bullet followed by a blank line, the description lines indented
\* one level, and a blank line, before the next bullet.
ClassListing(label) ==
    LET c == namedTypes[1]
        at == BulletPositions
    IN  /\ \E k \in 1..Len(lines) :
               /\ lines[k] = Line(0, label)
               /\ k + 1 <= Len(lines)
               /\ lines[k + 1] = BlankLine
               /\ \A i \in 1..Len(at) : at[i] > k + 1
        /\ Len(at) = Len(c.properties)
        /\ \A i \in 1..Len(at) :
               LET d == c.properties[i].description
                   n == Len(d.text)
               IN  d.present =>
                       /\ at[i] + n + 2 <= Len(lines)
                       /\ lines[at[i] + 1] = BlankLine
                       /\ \A m \in 1..n : lines[at[i] + 1 + m] = Line(1, d.text[m])
                       /\ lines[at[i] + n + 2] = BlankLine
                       /\ i < Len(at) => at[i + 1] = at[i] + n + 3

\* C10 as claimed: the member listing of a class begins with the bold label
\* "**Properties:**" and a blank line, the bullets come only after them, and
\* a described property's bullet is followed by a blank line, its description
\* indented one level, and a blank line.
C10_BoldPropertiesLabel == SectionDone({"class"}) => ClassListing("**Properties:**")

\* C10 as amended: the member listing of a class begins with the level-3
\* heading line "### Properties" and a blank line, the bullets come only
\* after them, and a described property's bullet is followed by a blank line,
\* its description indented one level, and a blank line.
C10_PropertiesHeading == SectionDone({"class"}) => ClassListing("### Properties")

C10_Witness ==
    /\ SectionDone({"class"})
    /\ Len(namedTypes[1].properties) = 2
    /\ namedTypes[1].properties[1].description = Description(2)
    /\ \E j \in 1..Len(lines) :
           /\ j + 5 <= Len(lines)
           /\ IsBullet(lines[j])
           /\ lines[j + 1] = BlankLine
           /\ lines[j + 2] = Line(1, DescLine(1))
           /\ lines[j + 3] = Line(1, DescLine(2))
           /\ lines[j + 4] = BlankLine
           /\ IsBullet(lines[j + 5])

====
